---- MODULE Spec2Model ----
(***************************************************************************)
(* Model of static/js/script.js: the Services Hub search (searchResources),*)
(* the Video Guide search (searchVideos) and the chatbot widget that the   *)
(* DOMContentLoaded handler wires up.                                      *)
(*                                                                         *)
(* JavaScript strings are TLA+ strings; a character is a string of length  *)
(* one, SubSeq(s, i, i).  The DOM is the set of element ids the page       *)
(* supplies (present) plus the properties of those elements the script     *)
(* reads or writes.                                                        *)
(***************************************************************************)
EXTENDS Integers, Sequences, FiniteSets, TLC

(* ---------------------------- bounds ----------------------------------- *)

\* The transcript plus the replies still pending never exceed this many entries.
MaxTranscript == 4

\* Granularity of the passage of time, in milliseconds.
TickMs == 500

\* Number of words concatenated to build the inputs of generateBotResponse.
MaxWords == 2

(* ------------------------ string primitives ---------------------------- *)

UpperAlpha == "ABCDEFGHIJKLMNOPQRSTUVWXYZ"

LowerAlpha == "abcdefghijklmnopqrstuvwxyz"

CharAt(s, i) == SubSeq(s, i, i)

\* White space String.prototype.trim strips (the part the inputs can hold).
IsSpace(c) == c \in {" ", "\t", "\n"}

RECURSIVE trimStart(_)
trimStart(s) ==
    IF s = "" THEN ""
    ELSE IF IsSpace(CharAt(s, 1)) THEN trimStart(SubSeq(s, 2, Len(s)))
    ELSE s

RECURSIVE trimEnd(_)
trimEnd(s) ==
    IF s = "" THEN ""
    ELSE IF IsSpace(CharAt(s, Len(s))) THEN trimEnd(SubSeq(s, 1, Len(s) - 1))
    ELSE s

\* String.prototype.trim
trim(s) == trimEnd(trimStart(s))

LowerChar(c) ==
    IF \E i \in 1..Len(UpperAlpha) : CharAt(UpperAlpha, i) = c
    THEN CharAt(LowerAlpha, CHOOSE i \in 1..Len(UpperAlpha) : CharAt(UpperAlpha, i) = c)
    ELSE c

\* String.prototype.toLowerCase
RECURSIVE toLowerCase(_)
toLowerCase(s) ==
    IF s = "" THEN ""
    ELSE LowerChar(CharAt(s, 1)) \o toLowerCase(SubSeq(s, 2, Len(s)))

\* String.prototype.includes
includes(s, kw) ==
    \E i \in 1..(Len(s) - Len(kw) + 1) : SubSeq(s, i, i + Len(kw) - 1) = kw

(* --------------------------- the page ---------------------------------- *)

ResourceElements == {"domain", "location", "planResult"}

VideoElements == {"searchInput", "videoContainer"}

\* The four elements the page-load handler tests before wiring the chatbot.
ChatGuardElements ==
    {"open-chatbot-btn", "chatbot-container", "close-chatbot-btn", "chat-form"}

ChatElements == ChatGuardElements \cup {"chat-input-field", "chat-body"}

Elements == ResourceElements \cup VideoElements \cup ChatElements

\* Values the user can select or type.
Domains == {"", "Pension", "Health"}

Locations == {"", "  ", "Austin", " Pune\t"}

VideoQueries == {"", " ", "yoga"}

VideoInputs == {"", " \t", " diet "}

ChatInputs == {"", "  ", " hello ", "I need help with my pension", "Thanks", "bye"}

(* --------------------------- rendering --------------------------------- *)

\* Delay of the reply timer, in milliseconds.
ChatDelay == 1000

ErrorHTML ==
    "<div class=\"card\" style=\"text-align: center; color: #c62828; background-color: #ffebee; padding: 20px;\"><strong>Please complete all fields to perform a search.</strong></div>"

headerText_Swapped(domain, location) ==
    "Displaying mock results for " \o location \o " in " \o domain

headerText(domain, location) ==
    "Displaying mock results for " \o domain \o " in " \o location

ResultHTML(domain, location) ==
    "<div class=\"result-header\"><h2>" \o headerText(domain, location) \o "</h2></div>"

VideoHTML(searchTerm) ==
    "<p style=\"text-align:center; padding: 20px;\">Showing mock video results for \""
        \o searchTerm \o "\"...</p>"

VideoAlert == "Please enter a search topic."

GreetingReply == "Hello there! How can I assist you today?"

SchemeReply ==
    "You can find detailed information on government schemes in our \"Services Hub\"."

HelpReply ==
    "I am here to help. You can ask me about services, resources, or the community forum."

ThanksReply == "You're welcome! Is there anything else I can help with?"

FallbackReply == "I'm sorry, I'm still learning. Try asking about 'schemes' or 'help'."

generateBotResponse_HelpFirst(userInput) ==
    LET input == toLowerCase(userInput) IN
    IF includes(input, "hello") \/ includes(input, "hi") THEN GreetingReply
    ELSE IF includes(input, "help") \/ includes(input, "support") THEN HelpReply
    ELSE IF includes(input, "scheme") \/ includes(input, "pension") THEN SchemeReply
    ELSE IF includes(input, "thank") THEN ThanksReply
    ELSE FallbackReply

generateBotResponse(userInput) ==
    LET input == toLowerCase(userInput) IN
    IF includes(input, "hello") \/ includes(input, "hi") THEN GreetingReply
    ELSE IF includes(input, "scheme") \/ includes(input, "pension") THEN SchemeReply
    ELSE IF includes(input, "help") \/ includes(input, "support") THEN HelpReply
    ELSE IF includes(input, "thank") THEN ThanksReply
    ELSE FallbackReply

\* The element addMessageToChat creates.
ChatMessage(sender, message) ==
    [className |-> "chat-message " \o sender \o "-message",
     innerHTML |-> "<p>" \o message \o "</p>"]

(* ---------------------------- state ------------------------------------ *)

VARIABLES
    present,         \* ids of the elements the page supplies
    loaded,          \* the DOMContentLoaded handler has run
    listeners,       \* chatbot listeners registered: "open", "close", "submit"
    chatbotDisplay,  \* chatbotContainer.style.display
    chatInputValue,  \* chatInputField.value
    chatBody,        \* children of chatBody, in document order
    chatScrollTop,   \* entry chatBody is scrolled to (its count when at the bottom)
    timers,          \* pending setTimeout callbacks, in registration order
    planResult,      \* innerHTML, style.display and scroll state of planResult
    videoContainer,  \* videoContainer.innerHTML
    last,            \* the handler that ran last: arguments, values read, outcome
    botInput,        \* input of the last generateBotResponse call (response study)
    botOutput        \* its result

vars == <<present, loaded, listeners, chatbotDisplay, chatInputValue, chatBody,
          chatScrollTop, timers, planResult, videoContainer, last, botInput, botOutput>>

chatVars == <<listeners, chatbotDisplay, chatInputValue, chatBody, chatScrollTop, timers>>

Event(op, args, read, threw, alert) ==
    [op |-> op, args |-> args, read |-> read, threw |-> threw, alert |-> alert]

Init ==
    /\ present \in SUBSET Elements
    /\ loaded = FALSE
    /\ listeners = {}
    /\ chatbotDisplay = ""
    /\ chatInputValue = ""
    /\ chatBody = <<>>
    /\ chatScrollTop = 0
    /\ timers = <<>>
    /\ planResult = [innerHTML |-> "", display |-> "", inView |-> FALSE]
    /\ videoContainer = ""
    /\ last = Event("load script", <<>>, <<>>, FALSE, "")
    /\ botInput = ""
    /\ botOutput = ""

(* ---------------------- Services Hub search ---------------------------- *)

planResultAfterSearch_NoTrim(d, l) ==
    IF "planResult" \notin present THEN planResult
    ELSE IF d = "" \/ l = ""
         THEN [planResult EXCEPT !.innerHTML = ErrorHTML, !.display = "block"]
         ELSE [innerHTML |-> ResultHTML(d, l), display |-> "block", inView |-> TRUE]

\* planResult after searchResources has read domain d and location l.
planResultAfterSearch(d, l) ==
    LET location == trim(l) IN
    IF "planResult" \notin present THEN planResult
    ELSE IF d = "" \/ location = ""
         THEN [planResult EXCEPT !.innerHTML = ErrorHTML, !.display = "block"]
         ELSE [innerHTML |-> ResultHTML(d, location), display |-> "block", inView |-> TRUE]

\* searchResources(), called by the search button's onclick; d and l are the
\* values of the domain selector and of the location field.  Reading .value
\* of an element the page does not supply throws a TypeError.
searchResources(d, l) ==
    /\ UNCHANGED <<present, loaded, chatVars, videoContainer, botInput, botOutput>>
    /\ IF "domain" \notin present
       THEN /\ last' = Event("searchResources", <<>>, <<>>, TRUE, "")
            /\ UNCHANGED planResult
       ELSE IF "location" \notin present
       THEN /\ last' = Event("searchResources", <<>>, <<d>>, TRUE, "")
            /\ UNCHANGED planResult
       ELSE /\ last' = Event("searchResources", <<>>, <<d, l>>, FALSE, "")
            /\ planResult' = planResultAfterSearch(d, l)

(* ----------------------- Video Guide search ---------------------------- *)

searchTerm_NoTrim(args, v) ==
    IF Len(args) > 0 /\ args[1] # "" THEN args[1]
    ELSE IF "searchInput" \in present THEN v
    ELSE ""

searchTerm_FieldFirst(args, v) ==
    IF "searchInput" \in present /\ trim(v) # "" THEN trim(v)
    ELSE IF Len(args) > 0 THEN args[1]
    ELSE ""

\* const searchTerm = query || (searchInput ? searchInput.value.trim() : '')
\* args is the call's argument list (empty when query is undefined), v the
\* value of the text field.
searchTerm(args, v) ==
    IF Len(args) > 0 /\ args[1] # "" THEN args[1]
    ELSE IF "searchInput" \in present THEN trim(v)
    ELSE ""

videoContainerAfterSearch(args, v) ==
    IF searchTerm(args, v) = "" THEN videoContainer
    ELSE IF "videoContainer" \in present THEN VideoHTML(searchTerm(args, v))
    ELSE videoContainer

searchVideos(args, v) ==
    LET fieldRead == ~(Len(args) > 0 /\ args[1] # "") /\ "searchInput" \in present IN
    /\ UNCHANGED <<present, loaded, chatVars, planResult, botInput, botOutput>>
    /\ last' = Event("searchVideos", args, IF fieldRead THEN <<v>> ELSE <<>>, FALSE,
                     IF searchTerm(args, v) = "" THEN VideoAlert ELSE "")
    /\ videoContainer' = videoContainerAfterSearch(args, v)

(* ----------------------------- chatbot --------------------------------- *)

\* if (openChatbotBtn && chatbotContainer && closeChatbotBtn && chatForm)
chatbotWired == ChatGuardElements \subseteq present

\* The DOMContentLoaded handler.
DOMContentLoaded ==
    /\ ~loaded
    /\ loaded' = TRUE
    /\ listeners' = IF chatbotWired THEN {"open", "close", "submit"} ELSE {}
    /\ last' = Event("DOMContentLoaded", <<>>, <<>>, FALSE, "")
    /\ UNCHANGED <<present, chatbotDisplay, chatInputValue, chatBody, chatScrollTop,
                   timers, planResult, videoContainer, botInput, botOutput>>

openClick ==
    /\ "open" \in listeners
    /\ chatbotDisplay' = "flex"
    /\ last' = Event("open", <<>>, <<>>, FALSE, "")
    /\ UNCHANGED <<present, loaded, listeners, chatInputValue, chatBody, chatScrollTop,
                   timers, planResult, videoContainer, botInput, botOutput>>

closeClick_CancelsReplies ==
    /\ "close" \in listeners
    /\ chatbotDisplay' = "none"
    /\ timers' = <<>>
    /\ last' = Event("close", <<>>, <<>>, FALSE, "")
    /\ UNCHANGED <<present, loaded, listeners, chatInputValue, chatBody, chatScrollTop,
                   planResult, videoContainer, botInput, botOutput>>

closeClick_HidesResults ==
    /\ "close" \in listeners
    /\ planResult' = [planResult EXCEPT !.display = "none"]
    /\ last' = Event("close", <<>>, <<>>, FALSE, "")
    /\ UNCHANGED <<present, loaded, listeners, chatbotDisplay, chatInputValue, chatBody,
                   chatScrollTop, timers, videoContainer, botInput, botOutput>>

closeClick_ShowsContainer ==
    /\ "close" \in listeners
    /\ chatbotDisplay' = "flex"
    /\ last' = Event("close", <<>>, <<>>, FALSE, "")
    /\ UNCHANGED <<present, loaded, listeners, chatInputValue, chatBody, chatScrollTop,
                   timers, planResult, videoContainer, botInput, botOutput>>

closeClick ==
    /\ "close" \in listeners
    /\ chatbotDisplay' = "none"
    /\ last' = Event("close", <<>>, <<>>, FALSE, "")
    /\ UNCHANGED <<present, loaded, listeners, chatInputValue, chatBody, chatScrollTop,
                   timers, planResult, videoContainer, botInput, botOutput>>

\* The user edits the chat input field.
typeChatInput(v) ==
    /\ "chat-input-field" \in present
    /\ chatInputValue' = v
    /\ last' = Event("type", <<>>, <<>>, FALSE, "")
    /\ UNCHANGED <<present, loaded, listeners, chatbotDisplay, chatBody, chatScrollTop,
                   timers, planResult, videoContainer, botInput, botOutput>>

addMessageToChat_Prepend(body, sender, message) ==
    IF "chat-body" \notin present THEN body
    ELSE <<ChatMessage(sender, message)>> \o body

\* addMessageToChat: the children of chatBody afterwards.
addMessageToChat(body, sender, message) ==
    IF "chat-body" \notin present THEN body
    ELSE Append(body, ChatMessage(sender, message))

\* chatBody.scrollTop = chatBody.scrollHeight
scrollToBottom(body) ==
    IF "chat-body" \notin present THEN chatScrollTop ELSE Len(body)

setTimeout_Twice(queue, message) ==
    queue \o << [userMessage |-> message, remaining |-> ChatDelay],
                [userMessage |-> message, remaining |-> ChatDelay] >>

\* setTimeout(callback, 1000): the callback closes over userMessage.
setTimeout(queue, message) ==
    Append(queue, [userMessage |-> message, remaining |-> ChatDelay])

\* Room for one more message and its reply.
HasRoom == Len(chatBody) + Len(timers) + 2 <= MaxTranscript

userMessage_NoTrim == chatInputValue

\* const userMessage = chatInputField.value.trim()
userMessage == trim(chatInputValue)

\* The submit listener of chatForm.
submit ==
    /\ "submit" \in listeners
    /\ UNCHANGED <<present, loaded, listeners, chatbotDisplay, planResult,
                   videoContainer, botInput, botOutput>>
    /\ IF "chat-input-field" \notin present
       THEN /\ last' = Event("submit", <<>>, <<>>, TRUE, "")
            /\ UNCHANGED <<chatInputValue, chatBody, chatScrollTop, timers>>
       ELSE /\ last' = Event("submit", <<>>, <<chatInputValue>>, FALSE, "")
            /\ IF userMessage # ""
               THEN /\ HasRoom
                    /\ chatBody' = addMessageToChat(chatBody, "user", userMessage)
                    /\ chatScrollTop' = scrollToBottom(chatBody')
                    /\ chatInputValue' = ""
                    /\ timers' = setTimeout(timers, userMessage)
               ELSE UNCHANGED <<chatInputValue, chatBody, chatScrollTop, timers>>

Max(a, b) == IF a >= b THEN a ELSE b

\* TickMs milliseconds pass.
tick ==
    /\ \E i \in 1..Len(timers) : timers[i].remaining > 0
    /\ timers' = [i \in 1..Len(timers) |->
                    [timers[i] EXCEPT !.remaining = Max(0, timers[i].remaining - TickMs)]]
    /\ last' = Event("tick", <<>>, <<>>, FALSE, "")
    /\ UNCHANGED <<present, loaded, listeners, chatbotDisplay, chatInputValue, chatBody,
                   chatScrollTop, planResult, videoContainer, botInput, botOutput>>

nextTimer_Latest ==
    CHOOSE i \in 1..Len(timers) :
        /\ timers[i].remaining = 0
        /\ \A j \in (i + 1)..Len(timers) : timers[j].remaining # 0

\* The timer the event loop runs next: among the expired ones, the one
\* registered first.
nextTimer ==
    CHOOSE i \in 1..Len(timers) :
        /\ timers[i].remaining = 0
        /\ \A j \in 1..(i - 1) : timers[j].remaining # 0

RemoveAt(q, i) == SubSeq(q, 1, i - 1) \o SubSeq(q, i + 1, Len(q))

\* The callback passed to setTimeout runs.
timerFires ==
    /\ \E i \in 1..Len(timers) : timers[i].remaining = 0
    /\ LET message == timers[nextTimer].userMessage
           botResponse == generateBotResponse(message)
       IN /\ chatBody' = addMessageToChat(chatBody, "bot", botResponse)
          /\ chatScrollTop' = scrollToBottom(chatBody')
          /\ last' = Event("timer", <<message>>, <<>>, FALSE, "")
    /\ timers' = RemoveAt(timers, nextTimer)
    /\ UNCHANGED <<present, loaded, listeners, chatbotDisplay, chatInputValue,
                   planResult, videoContainer, botInput, botOutput>>

(* ------------------- generateBotResponse on its own -------------------- *)

Words == {"hello", "hi", "scheme", "pension", "help", "support", "thank",
          "HELP", "Pension", "day", " "}

RECURSIVE WordStrings(_)
WordStrings(n) ==
    IF n = 0 THEN {""}
    ELSE WordStrings(n - 1) \cup {s \o w : s \in WordStrings(n - 1), w \in Words}

BotInputs == WordStrings(MaxWords) \cup {"I need help with my pension", "hint", "thin", "Thanks"}

respond(s) ==
    /\ botInput' = s
    /\ botOutput' = generateBotResponse(s)
    /\ last' = Event("generateBotResponse", <<s>>, <<>>, FALSE, "")
    /\ UNCHANGED <<present, loaded, chatVars, planResult, videoContainer>>

(* ------------------------- the specifications -------------------------- *)

\* Values of the whole-page specification (every handler on every page).
PageDomains == {"Pension"}

PageLocations == {"", " Austin "}

PageVideoQueries == {"yoga"}

PageVideoInputs == {" "}

PageChatInputs == {" hello ", "Thanks"}

VideoArgs(queries) == {<<>>} \cup {<<q>> : q \in queries}

\* Every handler, on a page supplying any subset of the elements.
Next ==
    \/ \E d \in PageDomains, l \in PageLocations : searchResources(d, l)
    \/ \E args \in VideoArgs(PageVideoQueries), v \in PageVideoInputs : searchVideos(args, v)
    \/ DOMContentLoaded
    \/ openClick
    \/ closeClick
    \/ \E v \in PageChatInputs : typeChatInput(v)
    \/ submit
    \/ tick
    \/ timerFires

Spec == Init /\ [][Next]_vars

\* The two searches, on a page supplying any subset of their elements.
InitSearch ==
    /\ Init
    /\ ChatElements \subseteq present

NextSearch ==
    \/ \E d \in Domains, l \in Locations : searchResources(d, l)
    \/ \E args \in VideoArgs(VideoQueries), v \in VideoInputs : searchVideos(args, v)

SpecSearch == InitSearch /\ [][NextSearch]_vars

\* The chatbot, on a page supplying any subset of its elements.
InitChat ==
    /\ Init
    /\ ResourceElements \cup VideoElements \subseteq present

NextChat ==
    \/ DOMContentLoaded
    \/ openClick
    \/ closeClick
    \/ \E v \in ChatInputs : typeChatInput(v)
    \/ submit
    \/ tick
    \/ timerFires

SpecChat == InitChat /\ [][NextChat]_vars

\* The chatbot under the event loop's scheduling: time passes and expired
\* timers run.
NextChatLive ==
    \/ DOMContentLoaded
    \/ openClick
    \/ closeClick
    \/ \E v \in PageChatInputs : typeChatInput(v)
    \/ submit
    \/ tick
    \/ timerFires

SpecChatLive ==
    InitChat /\ [][NextChatLive]_vars /\ WF_vars(tick) /\ WF_vars(timerFires)

\* generateBotResponse applied to each input.
InitResponse ==
    /\ Init
    /\ present = Elements

NextResponse == \E s \in BotInputs : respond(s)

SpecResponse == InitResponse /\ [][NextResponse]_vars

(* ------------------------------ claims --------------------------------- *)

AllChatPresent == ChatElements \subseteq present

\* The step just taken ran handler op to its end, without throwing.
Ran(op) == last'.op = op /\ ~last'.threw

\* C1: with all chatbot elements present, a submit whose trimmed input is
\* non-empty appends, in that same step, exactly one user entry carrying the
\* trimmed text to the end of the transcript and clears the input field (one
\* reply is scheduled, none has run); a submit whose trimmed input is empty
\* appends nothing, schedules no reply and leaves the transcript unchanged.
C1_SubmitAppendsUserEntry ==
    [][(AllChatPresent /\ Ran("submit")) =>
         IF trim(chatInputValue) # ""
         THEN /\ chatBody' = Append(chatBody,
                      [className |-> "chat-message user-message",
                       innerHTML |-> "<p>" \o trim(chatInputValue) \o "</p>"])
              /\ chatInputValue = " hello " =>
                      chatBody'[Len(chatBody')].innerHTML = "<p>hello</p>"
              /\ chatInputValue' = ""
              /\ Len(timers') = Len(timers) + 1
         ELSE /\ chatBody' = chatBody
              /\ timers' = timers
              /\ chatInputValue' = chatInputValue]_vars

C1_Witness ==
    /\ AllChatPresent
    /\ last.op = "submit" /\ ~last.threw
    /\ last.read = <<" hello ">>
    /\ Len(chatBody) = 3
    /\ chatBody[3] = [className |-> "chat-message user-message", innerHTML |-> "<p>hello</p>"]
    /\ chatInputValue = ""
    /\ Len(timers) = 1

\* The ordered rule list of the reply table.
Rules ==
    << [keywords |-> {"hello", "hi"}, response |-> GreetingReply],
       [keywords |-> {"scheme", "pension"}, response |-> SchemeReply],
       [keywords |-> {"help", "support"}, response |-> HelpReply],
       [keywords |-> {"thank"}, response |-> ThanksReply] >>

Matches(s, i) == \E kw \in Rules[i].keywords : includes(toLowerCase(s), kw)

FirstMatchReply(s) ==
    IF \E i \in 1..Len(Rules) : Matches(s, i)
    THEN Rules[CHOOSE i \in 1..Len(Rules) :
                   Matches(s, i) /\ \A j \in 1..(i - 1) : ~Matches(s, j)].response
    ELSE FallbackReply

\* C2: generateBotResponse is first-match-wins over the ordered rule list
\* [hello|hi, scheme|pension, help|support, thank]: the reply is the response
\* of the first rule having a keyword that is a substring of the lower-cased
\* input, the fallback when no rule matches; an input containing both
\* 'pension' and 'help' and neither 'hello' nor 'hi' gets the scheme reply.
C2_FirstMatchWins ==
    last.op = "generateBotResponse" =>
        /\ botOutput = FirstMatchReply(botInput)
        /\ botOutput \in {GreetingReply, SchemeReply, HelpReply, ThanksReply, FallbackReply}
        /\ (botInput \in {"pensionhelp", "helppension", "I need help with my pension", "HELPPension"})
               => botOutput = SchemeReply
        /\ botInput \in {"day", "", " "} => botOutput = FallbackReply

C2_Witness ==
    /\ last.op = "generateBotResponse"
    /\ botInput = "I need help with my pension"
    /\ botOutput = SchemeReply

\* The step just taken was a searchResources call that read an empty or
\* whitespace-only location.
EmptyLocationSearch ==
    /\ Ran("searchResources")
    /\ trim(last'.read[2]) = ""

\* The result header a region's markup holds ("" when it holds none).
HeaderContent(html) ==
    IF includes(html, "<div class=\"result-header\">") THEN html ELSE ""

\* C3 as stated: a searchResources call with an empty or whitespace-only
\* location shows the error state and leaves the header content of the
\* results region as it was, also when a previous search rendered a header.
C3_HeaderNotMutated ==
    [][EmptyLocationSearch =>
         HeaderContent(planResult'.innerHTML) = HeaderContent(planResult.innerHTML)]_vars

\* C3: a searchResources call that reads an empty or whitespace-only location
\* renders no result header; when the results region is present it is made
\* visible and its whole content is replaced by the error message (a header
\* left by a previous search is removed, the region is not scrolled), and
\* when the region is absent nothing changes.
C3_ErrorReplacesContent ==
    [][EmptyLocationSearch =>
         IF "planResult" \in present
         THEN /\ planResult'.innerHTML = ErrorHTML
              /\ planResult'.display = "block"
              /\ planResult'.inView = planResult.inView
              /\ HeaderContent(planResult'.innerHTML) = ""
         ELSE planResult' = planResult]_vars

C3_Witness ==
    /\ last.op = "searchResources" /\ ~last.threw
    /\ last.read = <<"Pension", "  ">>
    /\ planResult = [innerHTML |-> ErrorHTML, display |-> "block", inView |-> TRUE]

\* The step just taken was a searchVideos call whose query was empty: no
\* explicit query or an empty one, and an empty, whitespace-only or absent
\* text field.
EmptyVideoQuery ==
    /\ Ran("searchVideos")
    /\ last'.args = <<>> \/ last'.args = <<"">>
    /\ last'.read = <<>> \/ trim(last'.read[1]) = ""

\* C4: a searchVideos call whose query is empty takes the alert path and
\* leaves the content of the video container unchanged, whatever it held.
C4_EmptyQueryAlerts ==
    [][EmptyVideoQuery =>
         /\ last'.alert = "Please enter a search topic."
         /\ videoContainer' = videoContainer]_vars

C4_Witness ==
    /\ last.op = "searchVideos"
    /\ last.args = <<>>
    /\ last.read = <<" \t">>
    /\ last.alert = "Please enter a search topic."
    /\ includes(videoContainer, "Showing mock video results for \"yoga\"...")

\* C5 as stated: whatever subset of the page elements is absent, no handler
\* ever raises an error.
C5_NoHandlerThrows == ~last.threw

UserEntries(body) == SelectSeq(body, LAMBDA e : e.className = "chat-message user-message")

BotEntries(body) == SelectSeq(body, LAMBDA e : e.className = "chat-message bot-message")

\* The text between <p> and </p> of a transcript entry.
EntryText(e) == SubSeq(e.innerHTML, 4, Len(e.innerHTML) - 4)

\* C6: the k-th bot entry of the transcript is the reply to the k-th accepted
\* submission (the k-th user entry), and once every scheduled timer has fired
\* each submission has its reply.
C6_RepliesInSubmissionOrder ==
    LET users == UserEntries(chatBody)
        bots == BotEntries(chatBody)
    IN /\ Len(bots) <= Len(users)
       /\ \A k \in 1..Len(bots) :
             EntryText(bots[k]) = generateBotResponse(EntryText(users[k]))
       /\ ("chat-body" \in present /\ timers = <<>>) => Len(bots) = Len(users)

C6_Witness ==
    /\ timers = <<>>
    /\ Len(chatBody) = 4
    /\ chatBody[1].className = "chat-message user-message"
    /\ chatBody[2].className = "chat-message user-message"
    /\ EntryText(chatBody[1]) = "I need help with my pension"
    /\ EntryText(chatBody[2]) = "hello"
    /\ EntryText(chatBody[3]) = SchemeReply
    /\ EntryText(chatBody[4]) = GreetingReply

PendingMessages(queue) == [i \in 1..Len(queue) |-> queue[i].userMessage]

IsPrefix(a, b) == Len(a) <= Len(b) /\ SubSeq(b, 1, Len(a)) = a

\* The k-th accepted submission has got its reply.
Answered(k) ==
    /\ Len(BotEntries(chatBody)) >= k
    /\ EntryText(BotEntries(chatBody)[k]) =
          generateBotResponse(EntryText(UserEntries(chatBody)[k]))

\* C7: the k-th accepted submission (the k-th user entry, which carries the
\* message as submitted) is eventually followed by the k-th bot entry, whose
\* text is generateBotResponse of that message, whatever is clicked, typed or
\* submitted in between; and no step but the run of a timer's own callback
\* removes a pending reply.
C7_ReplyEventuallyAppended ==
    /\ \A k \in 1..(MaxTranscript \div 2) :
          (Len(UserEntries(chatBody)) >= k) ~> Answered(k)
    /\ [][IF last'.op = "timer"
          THEN Len(timers') = Len(timers) - 1
          ELSE IsPrefix(PendingMessages(timers), PendingMessages(timers'))]_vars

C7_Witness ==
    /\ last.op = "timer"
    /\ last.args = <<"hello">>
    /\ chatbotDisplay = "none"
    /\ chatInputValue = "Thanks"
    /\ Len(chatBody) = 2
    /\ EntryText(chatBody[2]) = GreetingReply

\* C8: an open click leaves the container open, a close click leaves it closed,
\* and neither changes the transcript, the input field, the pending replies or
\* the search regions.
C8_ClicksOnlyToggleVisibility ==
    [][/\ Ran("open") => chatbotDisplay' = "flex"
       /\ Ran("close") => chatbotDisplay' = "none"
       /\ (Ran("open") \/ Ran("close")) =>
             UNCHANGED <<chatBody, chatScrollTop, chatInputValue, timers,
                         planResult, videoContainer>>]_vars

C8_Witness ==
    /\ last.op = "close"
    /\ chatbotDisplay = "none"
    /\ Len(chatBody) = 3
    /\ Len(timers) = 1
    /\ chatInputValue = "bye"

\* C9: the transcript is append-only (in every step the previous transcript is
\* a prefix of the new one) and the user entries are in submission order: an
\* accepted submission puts its entry after every earlier user entry.
C9_TranscriptAppendOnly ==
    [][/\ IsPrefix(chatBody, chatBody')
       /\ (Ran("submit") /\ "chat-body" \in present /\ trim(chatInputValue) # "") =>
             UserEntries(chatBody') =
                Append(UserEntries(chatBody),
                       [className |-> "chat-message user-message",
                        innerHTML |-> "<p>" \o trim(chatInputValue) \o "</p>"])
       /\ ~Ran("submit") => UserEntries(chatBody') = UserEntries(chatBody)]_vars

C9_Witness ==
    /\ Len(chatBody) = 4
    /\ EntryText(chatBody[1]) = "hello"
    /\ EntryText(chatBody[2]) = GreetingReply
    /\ EntryText(chatBody[3]) = "Thanks"
    /\ EntryText(chatBody[4]) = ThanksReply
    /\ planResult.innerHTML # ""
    /\ videoContainer # ""

\* The step just taken was a searchResources call that read a non-empty
\* domain and a location that is non-empty after trimming.
CompleteSearch ==
    /\ Ran("searchResources")
    /\ last'.read[1] # ""
    /\ trim(last'.read[2]) # ""

\* C10: a searchResources call with a non-empty domain and a location that is
\* non-empty after trimming makes the results region visible and replaces its
\* content by the header 'Displaying mock results for <domain> in <trimmed
\* location>', both values verbatim.
C10_HeaderRendered ==
    [][(CompleteSearch /\ "planResult" \in present) =>
         /\ planResult'.display = "block"
         /\ planResult'.innerHTML =
               "<div class=\"result-header\"><h2>Displaying mock results for "
                  \o last'.read[1] \o " in " \o trim(last'.read[2]) \o "</h2></div>"
         /\ last'.read = <<"Pension", "Austin">> =>
               includes(planResult'.innerHTML, "Displaying mock results for Pension in Austin")
         /\ last'.read = <<"Health", " Pune\t">> =>
               includes(planResult'.innerHTML, ">Displaying mock results for Health in Pune<")]_vars

C10_Witness ==
    /\ last.op = "searchResources" /\ ~last.threw
    /\ last.read = <<"Health", " Pune\t">>
    /\ planResult.display = "block"
    /\ includes(planResult.innerHTML, ">Displaying mock results for Health in Pune<")

\* C11 as stated: an explicit query, whenever one is given, is the term and
\* takes precedence over the field's value; so a call given the empty string
\* has an empty term and renders nothing, whatever the field holds.
C11_ExplicitQueryAlwaysWins ==
    [][(Ran("searchVideos") /\ last'.args = <<"">>) =>
         videoContainer' = videoContainer]_vars

\* The term of the searchVideos call just made: the explicit query when it is
\* given and non-empty, otherwise the trimmed value read from the text field
\* (empty when the field is absent).
TermUsed ==
    IF last'.args # <<>> /\ last'.args[1] # "" THEN last'.args[1]
    ELSE IF last'.read # <<>> THEN trim(last'.read[1])
    ELSE ""

\* C11: searchVideos uses the explicit query when one is given and is not the
\* empty string (the field is then not read, and the query is not trimmed),
\* and otherwise the trimmed value of the text field; whenever that term is
\* non-empty and the video container is present, the container's content
\* becomes 'Showing mock video results for "<term>"...', the term verbatim.
C11_VideoTermRendered ==
    [][Ran("searchVideos") =>
         /\ (last'.args # <<>> /\ last'.args[1] # "") => last'.read = <<>>
         /\ (TermUsed # "" /\ "videoContainer" \in present) =>
               /\ videoContainer' =
                     "<p style=\"text-align:center; padding: 20px;\">Showing mock video results for \""
                        \o TermUsed \o "\"...</p>"
               /\ last'.alert = ""
         /\ last'.args = <<"yoga">> =>
               includes(videoContainer', "Showing mock video results for \"yoga\"...")
                  \/ "videoContainer" \notin present
         /\ (last'.args \in {<<>>, <<"">>} /\ last'.read = <<" diet ">>
               /\ "videoContainer" \in present) =>
               includes(videoContainer', "Showing mock video results for \"diet\"...")]_vars

C11_Witness ==
    /\ last.op = "searchVideos"
    /\ last.args = <<"yoga">>
    /\ last.read = <<>>
    /\ "searchInput" \in present
    /\ includes(videoContainer, "Showing mock video results for \"yoga\"...")

\* Number of entries of class cls among the first n of the transcript.
CountUpTo(cls, n) == Cardinality({i \in 1..n : chatBody[i].className = cls})

\* C12: with all chatbot elements present, the bot entries of the transcript
\* plus the pending reply timers are as many as the user entries, and every
\* bot entry has its own user entry before it (no prefix of the transcript
\* holds more bot entries than user entries).
C12_RepliesMatchSubmissions ==
    AllChatPresent =>
        /\ Len(BotEntries(chatBody)) + Len(timers) = Len(UserEntries(chatBody))
        /\ Len(UserEntries(chatBody)) + Len(BotEntries(chatBody)) = Len(chatBody)
        /\ \A n \in 1..Len(chatBody) :
              CountUpTo("chat-message bot-message", n)
                 <= CountUpTo("chat-message user-message", n)

C12_Witness ==
    /\ AllChatPresent
    /\ Len(chatBody) = 3
    /\ Len(UserEntries(chatBody)) = 2
    /\ Len(BotEntries(chatBody)) = 1
    /\ Len(timers) = 1
    /\ last.op = "submit"

SearchOps == {"searchResources", "searchVideos"}

ChatOps == {"open", "close", "submit", "timer"}

\* C13: the three features are independent: a searchResources or searchVideos
\* call (also one that throws) changes neither the transcript, the chatbot's
\* visibility, the chat input field nor the pending replies, and neither
\* changes the other search's region; no open, close, submit or timer step
\* changes the results region or the video container.
C13_FeaturesIndependent ==
    [][/\ last'.op \in SearchOps =>
             UNCHANGED <<chatBody, chatScrollTop, chatbotDisplay, chatInputValue,
                         timers, listeners>>
       /\ last'.op = "searchResources" => UNCHANGED videoContainer
       /\ last'.op = "searchVideos" => UNCHANGED planResult
       /\ last'.op \in ChatOps => UNCHANGED <<planResult, videoContainer>>]_vars

C13_Witness ==
    /\ last.op = "close"
    /\ includes(planResult.innerHTML, "Displaying mock results for Pension in Austin")
    /\ planResult.display = "block"
    /\ includes(videoContainer, "Showing mock video results for \"yoga\"...")
    /\ Len(chatBody) = 3
    /\ Len(timers) = 1
    /\ chatInputValue = "Thanks"

====
